---- MODULE Spec2Model ----
(***************************************************************************)
(* A model of accessibility_automator.py: the element search engine        *)
(* (automator_find_elements_from_roots and its callers), the busy overlay  *)
(* (AutomationOverlay, create/destroy/redraw_canvases) and the Windows     *)
(* tray navigator (automator_get_tray_icon_windows).                       *)
(*                                                                         *)
(* Python strings that the code inspects (element names, class names,      *)
(* regular expressions) are sequences of one-character strings, so that    *)
(* str.lower, the `in` substring test and re.search are computed rather    *)
(* than assumed.  Optional[x] is <<>> for None and <<x>> for a value.      *)
(***************************************************************************)
EXTENDS Integers, Sequences, FiniteSets, TLC

\* ------------------------------------------------------------------ bounds
MaxNodes == 3
MaxRoots == 2
MaxPathLen == 2
MaxWindows == 2
MaxScreens == 2
MaxScopes == 3
MaxThreads == 2
MaxMenuLen == 3

\* ----------------------------------------------------------------- strings
None == <<>>
Some(x) == <<x>>

UpperAlpha == <<"A","B","C","D","E","F","G","H","I","J","K","L","M",
                "N","O","P","Q","R","S","T","U","V","W","X","Y","Z">>
LowerAlpha == <<"a","b","c","d","e","f","g","h","i","j","k","l","m",
                "n","o","p","q","r","s","t","u","v","w","x","y","z">>

\* str.lower on one character
LowerChar(c) ==
  IF \E i \in DOMAIN UpperAlpha : UpperAlpha[i] = c
  THEN LowerAlpha[CHOOSE i \in DOMAIN UpperAlpha : UpperAlpha[i] = c]
  ELSE c

\* str.lower
Lower(s) == [i \in DOMAIN s |-> LowerChar(s[i])]

\* the Python test `sub in s` on strings
Contains(s, sub) ==
  \E p \in 0..(Len(s) - Len(sub)) :
    \A i \in 1..Len(sub) : s[p + i] = sub[i]

\* The regular expressions the module builds: an optional leading ^, an
\* optional trailing $, and between them literal characters, the wildcard .
\* and backslash-escaped characters (what re.escape produces).
RECURSIVE ReTokens(_)
ReTokens(p) ==
  IF p = <<>> THEN <<>>
  ELSE IF p[1] = "\\" /\ Len(p) >= 2
       THEN <<[any |-> FALSE, ch |-> p[2]]>> \o ReTokens(SubSeq(p, 3, Len(p)))
  ELSE IF p[1] = "."
       THEN <<[any |-> TRUE, ch |-> "."]>> \o ReTokens(Tail(p))
  ELSE <<[any |-> FALSE, ch |-> p[1]]>> \o ReTokens(Tail(p))

ReAnchoredStart(p) == Len(p) >= 1 /\ p[1] = "^"
ReAnchoredEnd(p) ==
  /\ Len(p) >= 1
  /\ p[Len(p)] = "$"
  /\ ~(Len(p) >= 2 /\ p[Len(p) - 1] = "\\")
ReBody(p) ==
  SubSeq(p, IF ReAnchoredStart(p) THEN 2 ELSE 1,
            IF ReAnchoredEnd(p) THEN Len(p) - 1 ELSE Len(p))

\* re.search(pattern, string, flags): ignorecase is flags = re.IGNORECASE
ReSearch(pattern, string, ignorecase) ==
  LET toks == ReTokens(ReBody(pattern))
      eq(a, b) == IF ignorecase THEN LowerChar(a) = LowerChar(b) ELSE a = b
  IN \E p \in 0..(Len(string) - Len(toks)) :
       /\ ReAnchoredStart(pattern) => p = 0
       /\ ReAnchoredEnd(pattern) => p + Len(toks) = Len(string)
       /\ \A i \in 1..Len(toks) : toks[i].any \/ eq(toks[i].ch, string[p + i])

\* --------------------------------------------------------------- sequences
Reversed(s) == [i \in DOMAIN s |-> s[Len(s) + 1 - i]]
Last(s) == s[Len(s)]
Front(s) == SubSeq(s, 1, Len(s) - 1)
Range(s) == {s[i] : i \in DOMAIN s}
\* all sequences over S of length at most n, without repetition
DistinctSeqs(S, n) ==
  {s \in UNION {[1..k -> S] : k \in 0..n} :
     \A i, j \in DOMAIN s : i # j => s[i] # s[j]}
SeqsUpTo(S, n) == UNION {[1..k -> S] : k \in 0..n}

\* ------------------------------------------------------------- class Spec
SpecOf(name, class_name, search_indirect, case_sensitive) ==
  [name |-> name, class_name |-> class_name,
   search_indirect |-> search_indirect, case_sensitive |-> case_sensitive]

\* The names and classes of the elements of the bounded trees.
NameEdge == <<"E","d","g","e">>
NameNotes == <<"N","o","t","e","s">>
ClassK == <<"K">>
ClassKx == <<"K","x">>
Kinds == << [name |-> NameEdge, class_name |-> ClassK],
            [name |-> NameNotes, class_name |-> ClassKx] >>

\* The stages the bounded search paths are built from.
AnySpec == SpecOf(None, None, FALSE, FALSE)
EdDirect == SpecOf(Some(<<"e","d">>), None, FALSE, FALSE)
KxIndirect == SpecOf(None, Some(<<"K",".">>), TRUE, FALSE)
EdCaseSensitive == SpecOf(Some(<<"E","d">>), None, FALSE, TRUE)
SpecSet == {AnySpec, EdDirect, KxIndirect, EdCaseSensitive}

\* ------------------------------------------------------------------ trees
Nodes == 1..MaxNodes

\* children of node n, in child order (ascending node number)
RECURSIVE ChildSeq(_, _, _)
ChildSeq(par, n, from) ==
  IF from > MaxNodes THEN <<>>
  ELSE (IF par[from] = n THEN <<from>> ELSE <<>>) \o ChildSeq(par, n, from + 1)

TreeOf(par, kind) ==
  [children |-> [n \in Nodes |-> ChildSeq(par, n, 1)],
   name |-> [n \in Nodes |-> Kinds[kind[n]].name],
   class_name |-> [n \in Nodes |-> Kinds[kind[n]].class_name],
   parent |-> par,
   stale |-> {}]

ParentVectors == {par \in [Nodes -> 0..MaxNodes] : \A n \in Nodes : par[n] < n}
Trees == {TreeOf(par, kind) : par \in ParentVectors, kind \in [Nodes -> DOMAIN Kinds]}

\* n is d or an ancestor of d
RECURSIVE IsAncestorOrSelf(_, _, _)
IsAncestorOrSelf(T, n, d) ==
  IF d = n THEN TRUE
  ELSE IF T.parent[d] = 0 THEN FALSE
  ELSE IsAncestorOrSelf(T, n, T.parent[d])

\* ------------------------------- automator_find_elements_from_roots, 199-222
Frame(element, remaining_specs) ==
  [element |-> element, remaining_specs |-> remaining_specs]

\* A faulty put loop: each element is put on the queue twice.
PutAll_Twice(queue, elements, specs) ==
  queue \o [i \in 1..(2 * Len(elements)) |-> Frame(elements[(i + 1) \div 2], specs)]

\* queue.put for each element of a sequence, in the order of the for loop
PutAll(queue, elements, specs) ==
  queue \o [i \in DOMAIN elements |-> Frame(elements[i], specs)]

\* `re.NONE if spec.case_sensitive else re.IGNORECASE`: the re module has no
\* attribute NONE, so the first arm raises AttributeError.
ReFlags(spec) == IF spec.case_sensitive THEN "AttributeError" ELSE "IGNORECASE"

NameRaises(spec) == spec.name # None /\ ReFlags(spec) = "AttributeError"

NameMatches(T, spec, element) ==
  \/ spec.name = None
  \/ ReSearch(spec.name[1], T.name[element], ReFlags(spec) = "IGNORECASE")

ClassMatches(T, spec, element) ==
  \/ spec.class_name = None
  \/ ReSearch(spec.class_name[1], T.class_name[element], FALSE)

\* element.name, element.class_name and element.children raise OSError when
\* the element has gone stale (its window closed, its node removed).
ReadRaises(T, element) == element \in T.stale

\* One iteration of the while loop on the frame just taken from the queue:
\* what it yields, what it puts on the queue, whether it raises and what.  No
\* handler is in the loop; the arguments of re.search are evaluated left to
\* right, element.name before the flags.
ProcessFrame(T, fr) ==
  LET element == fr.element
      remaining_specs == fr.remaining_specs
      spec == remaining_specs[1]
      nothing == [raised |-> FALSE, error |-> "none", yield |-> <<>>, put |-> <<>>]
      OSError == [nothing EXCEPT !.raised = TRUE, !.error = "OSError"]
  IN IF remaining_specs = <<>> THEN nothing
     ELSE IF spec.name # None /\ ReadRaises(T, element) THEN OSError
     ELSE IF NameRaises(spec)
          THEN [nothing EXCEPT !.raised = TRUE, !.error = "AttributeError"]
     ELSE IF spec.class_name # None /\ ReadRaises(T, element) THEN OSError
     ELSE IF NameMatches(T, spec, element) /\ ClassMatches(T, spec, element)
          THEN IF Len(remaining_specs) = 1
               THEN [nothing EXCEPT !.yield = <<element>>]
               ELSE IF ReadRaises(T, element) THEN OSError
               ELSE [nothing EXCEPT
                       !.put = PutAll(<<>>, T.children[element], Tail(remaining_specs))]
     ELSE IF spec.search_indirect
          THEN IF ReadRaises(T, element) THEN OSError
               ELSE [nothing EXCEPT
                       !.put = PutAll(<<>>, T.children[element], remaining_specs)]
     ELSE nothing

\* The whole while loop, run to its end from a given queue: the elements
\* yielded and popped, in order, and whether the loop ended by raising.
RECURSIVE RunLoop(_, _, _, _)
RunLoop(T, queue, yielded, popped) ==
  IF queue = <<>> THEN [yielded |-> yielded, popped |-> popped, raised |-> FALSE]
  ELSE LET fr == Last(queue)
           r == ProcessFrame(T, fr)
       IN IF r.raised
          THEN [yielded |-> yielded, popped |-> Append(popped, fr.element),
                raised |-> TRUE]
          ELSE RunLoop(T, Front(queue) \o r.put, yielded \o r.yield,
                       Append(popped, fr.element))

\* list(automator_find_elements_from_roots(roots, *path))
SearchAll(T, roots, path) == RunLoop(T, PutAll(<<>>, roots, path), <<>>, <<>>)

\* ------------------------------------------------------------------- state
VARIABLES
  \* the accessibility tree and the caller's arguments
  tree, root_elements, search_specs, windows,
  \* the generator automator_find_elements_from_roots and its consumer
  consumer, pc, gen_roots, queue, yielded, popped, found, error,
  \* the overlay globals (lines 78, 116, 147), the displays, the scopes made
  overlay_text_queue, canvases, canvas_context_count, screens, scopes,
  \* threads that enter and leave overlay scopes, and overlay_text_lock (79)
  threads, overlay_text_lock,
  \* the tray navigator: its position and locals, the desktop, what it did
  nav, ui, events,
  \* the platform action in progress (474-515, 451-471)
  act

searchVars == <<tree, root_elements, search_specs, windows,
                consumer, pc, gen_roots, queue, yielded, popped, found, error>>
overlayVars == <<overlay_text_queue, canvases, canvas_context_count, screens, scopes>>
threadVars == <<threads, overlay_text_lock>>
navVars == <<nav, ui, events, act>>
vars == <<searchVars, overlayVars, threadVars, navVars>>

\* ------------------------------------------------------- overlay, 78-179
DEFAULT_OVERLAY_TEXT == "Automating UI"
FINDING_ELEMENT_TEXT == "Searching UI Tree"

\* draw (83-113): the text put on a canvas, f"({text})" of the top of the
\* LifoQueue or of the default.
draw(text_queue) ==
  <<"(", IF text_queue = <<>> THEN DEFAULT_OVERLAY_TEXT ELSE Last(text_queue), ")">>

\* A canvas is drawn when it is frozen (c.freeze()) and keeps that picture.
create_canvases(cs, text_queue, nscreens) ==
  IF cs = <<>>
  THEN [i \in 1..nscreens |-> [screen |-> i, text |-> draw(text_queue)]]
  ELSE cs

destroy_canvases(cs) == <<>>

redraw_canvases(cs, text_queue) ==
  [i \in DOMAIN cs |-> [cs[i] EXCEPT !.text = draw(text_queue)]]

Overlay(text_queue, cs, count) ==
  [overlay_text_queue |-> text_queue, canvases |-> cs, canvas_context_count |-> count]

TheOverlay == Overlay(overlay_text_queue, canvases, canvas_context_count)

\* A faulty __enter__: the counter is not incremented.
AutomationOverlay_enter_NoCount(ov, text_override, nscreens) ==
  LET q == IF text_override # None
           THEN Append(ov.overlay_text_queue, text_override[1])
           ELSE ov.overlay_text_queue
      cs == IF ov.canvas_context_count = 0
            THEN create_canvases(ov.canvases, q, nscreens)
            ELSE ov.canvases
  IN Overlay(q, cs, ov.canvas_context_count)

\* AutomationOverlay.__enter__ (155-167).  Line 165 names redraw_canvases
\* without calling it, so the else arm draws nothing.
AutomationOverlay_enter(ov, text_override, nscreens) ==
  LET q == IF text_override # None
           THEN Append(ov.overlay_text_queue, text_override[1])
           ELSE ov.overlay_text_queue
      cs == IF ov.canvas_context_count = 0
            THEN create_canvases(ov.canvases, q, nscreens)
            ELSE ov.canvases
  IN Overlay(q, cs, ov.canvas_context_count + 1)

\* A faulty __exit__: the canvases are destroyed whatever the counter says.
AutomationOverlay_exit_AlwaysDestroys(ov, text_override) ==
  LET q == IF text_override # None
           THEN Front(ov.overlay_text_queue)
           ELSE ov.overlay_text_queue
  IN Overlay(q, destroy_canvases(ov.canvases), ov.canvas_context_count - 1)

\* AutomationOverlay.__exit__ (169-179).  LifoQueue.get() takes the top entry.
AutomationOverlay_exit(ov, text_override) ==
  LET q == IF text_override # None
           THEN Front(ov.overlay_text_queue)
           ELSE ov.overlay_text_queue
      count == ov.canvas_context_count - 1
      cs == IF count = 0
            THEN destroy_canvases(ov.canvases)
            ELSE redraw_canvases(ov.canvases, q)
  IN Overlay(q, cs, count)

SetOverlay(ov) ==
  /\ overlay_text_queue' = ov.overlay_text_queue
  /\ canvases' = ov.canvases
  /\ canvas_context_count' = ov.canvas_context_count

OverlayIdle ==
  /\ overlay_text_queue = <<>>
  /\ canvases = <<>>
  /\ canvas_context_count = 0
  /\ scopes = <<>>

ThreadsIdle ==
  /\ threads = <<>>
  /\ overlay_text_lock = 0

\* no platform action has been called
ActIdle ==
  [name |-> "none", pc |-> "idle", exact_menu_sequence |-> <<>>, i |-> 0,
   element |-> None, error |-> "none"]

NavIdle ==
  /\ nav = [pc |-> "idle", icon_name_regexp |-> <<>>, hidden_items_button |-> None,
            result |-> None, error |-> "none"]
  /\ ui = [start_open |-> FALSE, overflow_open |-> FALSE, autohide |-> FALSE,
           icon_on_taskbar |-> FALSE, icon_in_overflow |-> FALSE,
           has_hidden_button |-> FALSE, menus |-> <<>>, menu_depth |-> 1]
  /\ events = <<>>
  /\ act = ActIdle

\* ------------------------------------ the search generator and its consumer
SearchIdle ==
  /\ consumer = "none"
  /\ pc = "idle"
  /\ gen_roots = <<>>
  /\ queue = <<>>
  /\ yielded = <<>>
  /\ popped = <<>>
  /\ found = None
  /\ error = "none"

Paths == SeqsUpTo(SpecSet, MaxPathLen)

\* the elements of a tree that are no element's child
TopLevel(T) == {n \in Nodes : T.parent[n] = 0}

\* "list": the caller iterates over everything the generator yields;
\* "first": the caller is _automator_find_first_element_internal.
Consumers == {"list", "first"}

Init ==
  /\ tree \in Trees
  /\ root_elements \in DistinctSeqs(TopLevel(tree), MaxRoots)
  /\ search_specs \in Paths
  /\ windows = <<>>
  /\ SearchIdle
  /\ OverlayIdle
  /\ screens = MaxScreens
  /\ ThreadsIdle
  /\ NavIdle

\* automator_find_elements_from_roots(root_elements, *search_specs) is called
\* (248-251, or 339-340 where the roots given are not empty): a generator
\* object is made and none of its body runs yet.
Call_from_roots ==
  /\ pc = "idle"
  /\ windows = <<>>
  /\ pc' = "created"
  /\ consumer' \in Consumers
  /\ gen_roots' = root_elements
  /\ UNCHANGED <<tree, root_elements, search_specs, windows,
                 queue, yielded, popped, found, error, overlayVars>>
  /\ UNCHANGED <<threadVars, navVars>>

\* The first next(): the with statement is entered (194) and the roots are
\* put on the queue (195-197).
GenStart ==
  /\ pc = "created"
  /\ pc' = "running"
  /\ SetOverlay(AutomationOverlay_enter(TheOverlay, Some(FINDING_ELEMENT_TEXT), screens))
  /\ queue' = PutAll(<<>>, gen_roots, search_specs)
  /\ UNCHANGED <<tree, root_elements, search_specs, windows, consumer,
                 gen_roots, yielded, popped, found, error, screens, scopes>>
  /\ UNCHANGED <<threadVars, navVars>>

\* One iteration of the while loop (199-222).  A yield suspends the
\* generator inside the with statement; an exception leaves the with
\* statement (__exit__ returns False) and reaches the consumer.
GenStep ==
  /\ pc = "running"
  /\ queue # <<>>
  /\ LET fr == Last(queue)
         r == ProcessFrame(tree, fr)
     IN /\ popped' = Append(popped, fr.element)
        /\ IF r.raised
           THEN /\ pc' = "raised"
                /\ error' = r.error
                /\ queue' = Front(queue)
                /\ yielded' = yielded
                /\ SetOverlay(AutomationOverlay_exit(TheOverlay, Some(FINDING_ELEMENT_TEXT)))
           ELSE /\ pc' = IF r.yield # <<>> THEN "yielded" ELSE "running"
                /\ error' = error
                /\ queue' = Front(queue) \o r.put
                /\ yielded' = yielded \o r.yield
                /\ UNCHANGED <<overlay_text_queue, canvases, canvas_context_count>>
  /\ UNCHANGED <<tree, root_elements, search_specs, windows, consumer,
                 gen_roots, found, screens, scopes>>
  /\ UNCHANGED <<threadVars, navVars>>

\* The queue is empty (199): the with statement is left and the generator
\* ends, which the consumer sees as StopIteration.
GenExhausted ==
  /\ pc = "running"
  /\ queue = <<>>
  /\ pc' = "stopped"
  /\ SetOverlay(AutomationOverlay_exit(TheOverlay, Some(FINDING_ELEMENT_TEXT)))
  /\ UNCHANGED <<tree, root_elements, search_specs, windows, consumer,
                 gen_roots, queue, yielded, popped, found, error, screens, scopes>>
  /\ UNCHANGED <<threadVars, navVars>>

\* A consumer that iterates on (a for loop, list(...)) calls next() again.
NextAgain ==
  /\ consumer = "list"
  /\ pc = "yielded"
  /\ pc' = "running"
  /\ UNCHANGED <<tree, root_elements, search_specs, windows, consumer,
                 gen_roots, queue, yielded, popped, found, error, overlayVars>>
  /\ UNCHANGED <<threadVars, navVars>>

\* A consumer that has what it wanted stops calling next() (a for loop left
\* by break, a single next(it)): the generator stays suspended at its yield,
\* inside the with statement, for as long as the consumer holds it.
StopPulling ==
  /\ consumer = "list"
  /\ pc = "yielded"
  /\ pc' = "abandoned"
  /\ UNCHANGED <<tree, root_elements, search_specs, windows, consumer,
                 gen_roots, queue, yielded, popped, found, error, overlayVars>>
  /\ UNCHANGED <<threadVars, navVars>>

\* A faulty find-first: StopIteration is swallowed and None returned.
FindFirstOutcome_ReturnsNone(outcome) ==
  IF outcome.kind = "yield"
  THEN [pc |-> "returned", found |-> Some(outcome.value), error |-> "none"]
  ELSE IF outcome.kind = "StopIteration"
  THEN [pc |-> "returned", found |-> None, error |-> "none"]
  ELSE [pc |-> "raised", found |-> None, error |-> outcome.kind]

\* _automator_find_first_element_internal (265-272) on the outcome of its one
\* next(): a value is returned, StopIteration becomes ElementNotFoundError.
FindFirstOutcome(outcome) ==
  IF outcome.kind = "yield"
  THEN [pc |-> "returned", found |-> Some(outcome.value), error |-> "none"]
  ELSE IF outcome.kind = "StopIteration"
  THEN [pc |-> "notfound", found |-> None, error |-> "ElementNotFoundError"]
  ELSE [pc |-> "raised", found |-> None, error |-> outcome.kind]

FindFirstReturn ==
  /\ consumer = "first"
  /\ pc = "yielded"
  /\ LET o == FindFirstOutcome([kind |-> "yield", value |-> yielded[1]])
     IN pc' = o.pc /\ found' = o.found /\ error' = o.error
  /\ UNCHANGED <<tree, root_elements, search_specs, windows, consumer,
                 gen_roots, queue, yielded, popped, overlayVars>>
  /\ UNCHANGED <<threadVars, navVars>>

FindFirstRaise ==
  /\ consumer = "first"
  /\ pc = "stopped"
  /\ LET o == FindFirstOutcome([kind |-> "StopIteration", value |-> 0])
     IN pc' = o.pc /\ found' = o.found /\ error' = o.error
  /\ UNCHANGED <<tree, root_elements, search_specs, windows, consumer,
                 gen_roots, queue, yielded, popped, overlayVars>>
  /\ UNCHANGED <<threadVars, navVars>>

\* The suspended generator that find-first leaves behind, or that a consumer
\* lets go of, is closed when it is collected: GeneratorExit is raised at the
\* yield and the with statement is left.
GeneratorClose ==
  /\ pc \in {"returned", "abandoned"}
  /\ pc' = "closed"
  /\ SetOverlay(AutomationOverlay_exit(TheOverlay, Some(FINDING_ELEMENT_TEXT)))
  /\ UNCHANGED <<tree, root_elements, search_specs, windows, consumer,
                 gen_roots, queue, yielded, popped, found, error, screens, scopes>>
  /\ UNCHANGED <<threadVars, navVars>>

Next ==
  \/ Call_from_roots
  \/ GenStart
  \/ GenStep
  \/ GenExhausted
  \/ NextAgain
  \/ FindFirstReturn
  \/ FindFirstRaise
  \/ GeneratorClose

Spec == Init /\ [][Next]_vars

\* the same, with consumers that may stop before the end
NextStopping ==
  \/ Call_from_roots
  \/ GenStart
  \/ GenStep
  \/ GenExhausted
  \/ NextAgain
  \/ StopPulling
  \/ FindFirstReturn
  \/ FindFirstRaise
  \/ GeneratorClose

SpecStopping == Init /\ [][NextStopping]_vars

\* ------------------------------------------- automator_find_elements, 225-245
\* ui.windows(): each window is hidden or not, minimized or not, and its
\* .element either is an element of the tree or raises OSError.
Window(hidden, minimized, accessible, element) ==
  [hidden |-> hidden, minimized |-> minimized, accessible |-> accessible,
   element |-> element]

Browsers == { <<"f","i","r","e","f","o","x">>, <<"c","h","r","o","m","e">>,
              <<"e","d","g","e">>, <<"s","a","f","a","r","i">>,
              <<"b","r","a","v","e">> }

\* the element appended once for each browser identifier its name contains
\* (238-240); the `continue` there continues the inner loop only
RECURSIVE Repeat(_, _)
Repeat(x, n) == IF n = 0 THEN <<>> ELSE <<x>> \o Repeat(x, n - 1)

BrowserAppends(T, element) ==
  Repeat(element, Cardinality({b \in Browsers : Contains(Lower(T.name[element]), b)}))

\* the loop of 231-242, from window i on: the lists windows and
\* browser_windows, and whether element.name at 239 raised OSError, which
\* only window.element (234-237) is guarded against
RECURSIVE EnumerateWindows(_, _, _, _, _)
EnumerateWindows(T, ws, i, wins, browser_windows) ==
  IF i > Len(ws)
  THEN [windows |-> wins, browser_windows |-> browser_windows, raised |-> FALSE]
  ELSE IF ws[i].hidden \/ ws[i].minimized \/ ~ws[i].accessible
       THEN EnumerateWindows(T, ws, i + 1, wins, browser_windows)
  ELSE IF ReadRaises(T, ws[i].element)
       THEN [windows |-> wins, browser_windows |-> browser_windows, raised |-> TRUE]
  ELSE EnumerateWindows(T, ws, i + 1, Append(wins, ws[i].element),
                        browser_windows \o BrowserAppends(T, ws[i].element))

\* the roots handed to automator_find_elements_from_roots (244-245)
DesktopRoots(T, ws) ==
  LET e == EnumerateWindows(T, ws, 1, <<>>, <<>>)
  IN Reversed(e.windows \o e.browser_windows)

WindowStates ==
  { [hidden |-> FALSE, minimized |-> FALSE, accessible |-> TRUE],
    [hidden |-> TRUE, minimized |-> FALSE, accessible |-> TRUE],
    [hidden |-> FALSE, minimized |-> TRUE, accessible |-> TRUE],
    [hidden |-> FALSE, minimized |-> FALSE, accessible |-> FALSE] }

\* the window lists of a tree: distinct top-level elements, each in some state
WindowLists(T) ==
  { [i \in DOMAIN es |->
       Window(st[i].hidden, st[i].minimized, st[i].accessible, es[i])] :
      es \in {e \in DistinctSeqs(TopLevel(T), MaxWindows) : e # <<>>},
      st \in [1..MaxWindows -> WindowStates] }

InitDesktop ==
  /\ tree \in Trees
  /\ root_elements = <<>>
  /\ search_specs \in Paths
  /\ windows \in WindowLists(tree)
  /\ SearchIdle
  /\ OverlayIdle
  /\ screens = MaxScreens
  /\ ThreadsIdle
  /\ NavIdle

\* automator_find_elements(*search_specs) is called (275-279, or 341-342 where
\* no roots are given): inside its own overlay scope it lists the windows and
\* makes the generator; the scope is left when it returns, or when the
\* OSError of a stale window element passes through it.
Call_find_elements ==
  /\ pc = "idle"
  /\ windows # <<>>
  /\ consumer' \in Consumers
  /\ IF EnumerateWindows(tree, windows, 1, <<>>, <<>>).raised
     THEN /\ pc' = "raised"
          /\ error' = "OSError"
          /\ gen_roots' = gen_roots
     ELSE /\ pc' = "created"
          /\ error' = error
          /\ gen_roots' = DesktopRoots(tree, windows)
  /\ SetOverlay(AutomationOverlay_exit(
                  AutomationOverlay_enter(TheOverlay, Some(FINDING_ELEMENT_TEXT), screens),
                  Some(FINDING_ELEMENT_TEXT)))
  /\ UNCHANGED <<tree, root_elements, search_specs, windows,
                 queue, yielded, popped, found, screens, scopes>>
  /\ UNCHANGED <<threadVars, navVars>>

NextDesktop ==
  \/ Call_find_elements
  \/ GenStart
  \/ GenStep
  \/ GenExhausted
  \/ NextAgain
  \/ FindFirstReturn
  \/ FindFirstRaise
  \/ GeneratorClose

SpecDesktop == InitDesktop /\ [][NextDesktop]_vars

\* ------------------------------------- searches of a desktop that changes
\* the paths without a case-sensitive stage
PathsIgnoringCase == SeqsUpTo(SpecSet \ {EdCaseSensitive}, MaxPathLen)

\* As InitDesktop, with at most one element of the tree gone stale.
InitStale ==
  /\ \E t \in Trees, gone \in {S \in SUBSET Nodes : Cardinality(S) <= 1} :
       tree = [t EXCEPT !.stale = gone]
  /\ root_elements = <<>>
  /\ search_specs \in PathsIgnoringCase
  /\ windows \in WindowLists(tree)
  /\ SearchIdle
  /\ OverlayIdle
  /\ screens = MaxScreens
  /\ ThreadsIdle
  /\ NavIdle

SpecStale == InitStale /\ [][NextDesktop]_vars

\* ------------------------------------------ overlay scopes, one after another
\* No search is in progress.
SearchAbsent ==
  /\ tree = TreeOf([n \in Nodes |-> 0], [n \in Nodes |-> 1])
  /\ root_elements = <<>>
  /\ search_specs = <<>>
  /\ windows = <<>>
  /\ SearchIdle

\* the text_override of the bounded scopes: none, or one of two texts
TextOverrides == {None, Some("A"), Some("B")}

OpenScopes == {i \in DOMAIN scopes : scopes[i].open}

InitOverlay ==
  /\ SearchAbsent
  /\ OverlayIdle
  /\ screens \in 0..MaxScreens
  /\ ThreadsIdle
  /\ NavIdle

\* `with AutomationOverlay(text_override):` is entered: __init__ (152-153) and
\* __enter__ run to their end.
EnterScope ==
  /\ Len(scopes) < MaxScopes
  /\ \E text_override \in TextOverrides :
       /\ scopes' = Append(scopes, [text_override |-> text_override, open |-> TRUE])
       /\ SetOverlay(AutomationOverlay_enter(TheOverlay, text_override, screens))
  /\ UNCHANGED <<searchVars, screens, threadVars, navVars>>

\* The with statement of scope i is left: __exit__ runs to its end.  Scopes
\* are left in any order (their lifetimes may overlap without nesting).
ExitScope ==
  /\ \E i \in OpenScopes :
       /\ scopes' = [scopes EXCEPT ![i].open = FALSE]
       /\ SetOverlay(AutomationOverlay_exit(TheOverlay, scopes[i].text_override))
  /\ UNCHANGED <<searchVars, screens, threadVars, navVars>>

NextOverlay ==
  \/ EnterScope
  \/ ExitScope

SpecOverlay == InitOverlay /\ [][NextOverlay]_vars

\* ------------------------------- overlay scopes where the canvas calls raise
\* __enter__ raises: with the counter at 0 and no canvas in the list,
\* create_canvases (119-131) raises at screen k, after the text was put on the
\* queue (157-159) and the canvases of the screens before k were appended
\* (131), and before the counter is incremented (166).  The with statement is
\* not entered, so no __exit__ follows.
EnterScopeRaises ==
  /\ Len(scopes) < MaxScopes
  /\ canvas_context_count = 0
  /\ canvases = <<>>
  /\ \E text_override \in TextOverrides, k \in 1..screens :
       LET q == IF text_override # None
                THEN Append(overlay_text_queue, text_override[1])
                ELSE overlay_text_queue
       IN /\ scopes' = Append(scopes, [text_override |-> text_override, open |-> FALSE])
          /\ overlay_text_queue' = q
          /\ canvases' = SubSeq(create_canvases(canvases, q, screens), 1, k - 1)
          /\ canvas_context_count' = canvas_context_count
  /\ error' = "canvas"
  /\ UNCHANGED <<tree, root_elements, search_specs, windows, consumer, pc,
                 gen_roots, queue, yielded, popped, found, screens,
                 threadVars, navVars>>

\* __exit__ raises: after the text was taken off the queue (171-173) and the
\* counter decremented (174), destroy_canvases (134-138) raises at canvas k,
\* before canvases.clear(), or redraw_canvases (141-144) raises at canvas k,
\* the canvases before k redrawn.
ExitScopeRaises ==
  /\ \E i \in OpenScopes, k \in DOMAIN canvases :
       LET ov == AutomationOverlay_exit(TheOverlay, scopes[i].text_override)
       IN /\ scopes' = [scopes EXCEPT ![i].open = FALSE]
          /\ overlay_text_queue' = ov.overlay_text_queue
          /\ canvas_context_count' = ov.canvas_context_count
          /\ canvases' = IF ov.canvas_context_count = 0
                         THEN canvases
                         ELSE SubSeq(ov.canvases, 1, k - 1)
                              \o SubSeq(canvases, k, Len(canvases))
  /\ error' = "canvas"
  /\ UNCHANGED <<tree, root_elements, search_specs, windows, consumer, pc,
                 gen_roots, queue, yielded, popped, found, screens,
                 threadVars, navVars>>

NextOverlayFaults ==
  \/ EnterScope
  \/ ExitScope
  \/ EnterScopeRaises
  \/ ExitScopeRaises

SpecOverlayFaults == InitOverlay /\ [][NextOverlayFaults]_vars

\* ----------------------------------- overlay scopes entered by several threads
\* Each thread runs `with AutomationOverlay(text_override): ...` once.  Its
\* record holds where it is (pc), its text_override, the value of
\* canvas_context_count it has loaded for `+= 1` / `-= 1` (count), and the
\* index of the screen its create_canvases loop is at (screen).  The steps
\* are the reads and writes of the globals; any thread may run between two of
\* them.  overlay_text_lock is 0 when free, else the thread holding it.
Threads == 1..MaxThreads

InitThreads ==
  /\ SearchAbsent
  /\ OverlayIdle
  /\ screens \in 1..MaxScreens
  /\ threads = [t \in Threads |->
                  [pc |-> "idle", text_override |-> None, count |-> 0, screen |-> 0]]
  /\ overlay_text_lock = 0
  /\ NavIdle

Goto(t, label) == threads' = [threads EXCEPT ![t].pc = label]
ThreadFrame == UNCHANGED <<searchVars, screens, scopes, navVars>>

\* 152-157: the scope object is made and __enter__ starts
T_Enter(t) ==
  /\ threads[t].pc = "idle"
  /\ \E text_override \in TextOverrides :
       threads' = [threads EXCEPT
                     ![t].text_override = text_override,
                     ![t].pc = IF text_override # None THEN "enter_lock"
                               ELSE "enter_test"]
  /\ UNCHANGED <<overlay_text_queue, canvases, canvas_context_count, overlay_text_lock>>
  /\ ThreadFrame

\* 158: with overlay_text_lock
T_EnterLock(t) ==
  /\ threads[t].pc = "enter_lock"
  /\ overlay_text_lock = 0
  /\ overlay_text_lock' = t
  /\ Goto(t, "enter_put")
  /\ UNCHANGED <<overlay_text_queue, canvases, canvas_context_count>>
  /\ ThreadFrame

\* 159: overlay_text_queue.put, and the lock is released
T_EnterPut(t) ==
  /\ threads[t].pc = "enter_put"
  /\ overlay_text_queue' = Append(overlay_text_queue, threads[t].text_override[1])
  /\ overlay_text_lock' = 0
  /\ Goto(t, "enter_test")
  /\ UNCHANGED <<canvases, canvas_context_count>>
  /\ ThreadFrame

\* 162-165: if canvas_context_count == 0; the else arm does nothing
T_EnterTest(t) ==
  /\ threads[t].pc = "enter_test"
  /\ Goto(t, IF canvas_context_count = 0 THEN "create_test" ELSE "enter_load")
  /\ UNCHANGED <<overlay_text_queue, canvases, canvas_context_count, overlay_text_lock>>
  /\ ThreadFrame

\* 120-121: if not canvases, and the loop over ui.screens() starts
T_CreateTest(t) ==
  /\ threads[t].pc = "create_test"
  /\ threads' = [threads EXCEPT
                   ![t].pc = IF canvases = <<>> THEN "create_loop" ELSE "enter_load",
                   ![t].screen = 1]
  /\ UNCHANGED <<overlay_text_queue, canvases, canvas_context_count, overlay_text_lock>>
  /\ ThreadFrame

\* 122-131: one canvas is made, drawn (draw takes overlay_text_lock for the
\* text, 93-100), frozen and appended
T_CreateCanvas(t) ==
  /\ threads[t].pc = "create_loop"
  /\ threads[t].screen <= screens
  /\ overlay_text_lock = 0
  /\ canvases' = Append(canvases, [screen |-> threads[t].screen,
                                   text |-> draw(overlay_text_queue)])
  /\ threads' = [threads EXCEPT ![t].screen = @ + 1]
  /\ UNCHANGED <<overlay_text_queue, canvas_context_count, overlay_text_lock>>
  /\ ThreadFrame

\* 121: the loop over the screens ends
T_CreateDone(t) ==
  /\ threads[t].pc = "create_loop"
  /\ threads[t].screen > screens
  /\ Goto(t, "enter_load")
  /\ UNCHANGED <<overlay_text_queue, canvases, canvas_context_count, overlay_text_lock>>
  /\ ThreadFrame

\* 166: canvas_context_count += 1 loads the global ...
T_EnterLoad(t) ==
  /\ threads[t].pc = "enter_load"
  /\ threads' = [threads EXCEPT ![t].count = canvas_context_count,
                                ![t].pc = "enter_store"]
  /\ UNCHANGED <<overlay_text_queue, canvases, canvas_context_count, overlay_text_lock>>
  /\ ThreadFrame

\* ... and stores the sum; __enter__ returns (167) and the scope is open
T_EnterStore(t) ==
  /\ threads[t].pc = "enter_store"
  /\ canvas_context_count' = threads[t].count + 1
  /\ Goto(t, "open")
  /\ UNCHANGED <<overlay_text_queue, canvases, overlay_text_lock>>
  /\ ThreadFrame

\* 169-171: the with statement is left and __exit__ starts
T_Exit(t) ==
  /\ threads[t].pc = "open"
  /\ Goto(t, IF threads[t].text_override # None THEN "exit_lock" ELSE "exit_load")
  /\ UNCHANGED <<overlay_text_queue, canvases, canvas_context_count, overlay_text_lock>>
  /\ ThreadFrame

\* 172: with overlay_text_lock
T_ExitLock(t) ==
  /\ threads[t].pc = "exit_lock"
  /\ overlay_text_lock = 0
  /\ overlay_text_lock' = t
  /\ Goto(t, "exit_get")
  /\ UNCHANGED <<overlay_text_queue, canvases, canvas_context_count>>
  /\ ThreadFrame

\* 173: overlay_text_queue.get() takes the top entry; the lock is released
T_ExitGet(t) ==
  /\ threads[t].pc = "exit_get"
  /\ overlay_text_queue # <<>>
  /\ overlay_text_queue' = Front(overlay_text_queue)
  /\ overlay_text_lock' = 0
  /\ Goto(t, "exit_load")
  /\ UNCHANGED <<canvases, canvas_context_count>>
  /\ ThreadFrame

\* 174: canvas_context_count -= 1 loads the global ...
T_ExitLoad(t) ==
  /\ threads[t].pc = "exit_load"
  /\ threads' = [threads EXCEPT ![t].count = canvas_context_count,
                                ![t].pc = "exit_store"]
  /\ UNCHANGED <<overlay_text_queue, canvases, canvas_context_count, overlay_text_lock>>
  /\ ThreadFrame

\* ... and stores the difference
T_ExitStore(t) ==
  /\ threads[t].pc = "exit_store"
  /\ canvas_context_count' = threads[t].count - 1
  /\ Goto(t, "exit_test")
  /\ UNCHANGED <<overlay_text_queue, canvases, overlay_text_lock>>
  /\ ThreadFrame

\* 175-176: the global is 0, destroy_canvases
T_ExitDestroy(t) ==
  /\ threads[t].pc = "exit_test"
  /\ canvas_context_count = 0
  /\ canvases' = destroy_canvases(canvases)
  /\ Goto(t, "closed")
  /\ UNCHANGED <<overlay_text_queue, canvas_context_count, overlay_text_lock>>
  /\ ThreadFrame

\* 177-178: it is not, redraw_canvases (each draw takes the lock for the text)
T_ExitRedraw(t) ==
  /\ threads[t].pc = "exit_test"
  /\ canvas_context_count # 0
  /\ overlay_text_lock = 0
  /\ canvases' = redraw_canvases(canvases, overlay_text_queue)
  /\ Goto(t, "closed")
  /\ UNCHANGED <<overlay_text_queue, canvas_context_count, overlay_text_lock>>
  /\ ThreadFrame

NextThreads ==
  \E t \in Threads :
    \/ T_Enter(t)
    \/ T_EnterLock(t)
    \/ T_EnterPut(t)
    \/ T_EnterTest(t)
    \/ T_CreateTest(t)
    \/ T_CreateCanvas(t)
    \/ T_CreateDone(t)
    \/ T_EnterLoad(t)
    \/ T_EnterStore(t)
    \/ T_Exit(t)
    \/ T_ExitLock(t)
    \/ T_ExitGet(t)
    \/ T_ExitLoad(t)
    \/ T_ExitStore(t)
    \/ T_ExitDestroy(t)
    \/ T_ExitRedraw(t)

SpecThreads == InitThreads /\ [][NextThreads]_vars

\* ------------------------------------------------ the tray navigator, 411-448
\* next(iter(generator)) where the generator has not run yet: the loop of
\* 199-222 runs until its first yield, its end, or an exception.
RECURSIVE RunToYield(_, _)
RunToYield(T, q) ==
  IF q = <<>> THEN [kind |-> "StopIteration", value |-> 0]
  ELSE LET r == ProcessFrame(T, Last(q))
       IN IF r.raised THEN [kind |-> r.error, value |-> 0]
          ELSE IF r.yield # <<>> THEN [kind |-> "yield", value |-> r.yield[1]]
          ELSE RunToYield(T, Front(q) \o r.put)

\* automator_find_first_element(*search_specs) (275-279) on a desktop.  The
\* overlay scopes it enters (227, 194) are left again by the time it returns
\* or raises: the generator find-first leaves behind is closed on the spot,
\* being referenced by nothing.
automator_find_first_element(T, ws, path) ==
  FindFirstOutcome(RunToYield(T, PutAll(<<>>, DesktopRoots(T, ws), path)))

Str_Taskbar == <<"T","a","s","k","b","a","r">>
Str_Shell_TrayWnd == <<"S","h","e","l","l","_","T","r","a","y","W","n","d">>
Str_NormalButton == <<"S","y","s","t","e","m","T","r","a","y",".","N","o","r","m","a","l","B","u","t","t","o","n">>
Str_ShowHiddenIcons == <<"S","h","o","w"," ","H","i","d","d","e","n"," ","I","c","o","n","s">>
Str_Overflow == <<"T","o","p","L","e","v","e","l","W","i","n","d","o","w","F","o","r","O","v","e","r","f","l","o","w","X","a","m","l","I","s","l","a","n","d">>
Str_TalonExact == <<"^","T","a","l","o","n","$">>
Str_talon == <<"t","a","l","o","n">>

\* system_tray_button_spec (49-54)
system_tray_button_spec(name_regexp) ==
  SpecOf(Some(name_regexp), Some(Str_NormalButton), TRUE, FALSE)

\* class SearchSpecs (57-69)
WINDOWS_TASKBAR == <<SpecOf(Some(Str_Taskbar), Some(Str_Shell_TrayWnd), FALSE, FALSE)>>
WINDOWS_HIDDEN_ITEMS_TRAY_BUTTON ==
  WINDOWS_TASKBAR \o <<system_tray_button_spec(Str_ShowHiddenIcons)>>
WINDOWS_TRAY_ICONS_OVERFLOW == <<SpecOf(None, Some(Str_Overflow), FALSE, FALSE)>>

\* re.escape: a backslash before each of the characters the re module
\* treats as special
SpecialChars == {"(", ")", "[", "]", "{", "}", "?", "*", "+", "-", "|", "^",
                 "$", "\\", ".", "&", "~", "#", " "}

RECURSIVE ReEscape(_)
ReEscape(string) ==
  IF string = <<>> THEN <<>>
  ELSE (IF string[1] \in SpecialChars THEN <<"\\", string[1]>> ELSE <<string[1]>>)
       \o ReEscape(Tail(string))

\* A faulty exact_match_re: the string is not escaped.
exact_match_re_NoEscape(string) == <<"^">> \o string \o <<"$">>

\* exact_match_re (407-408)
exact_match_re(string) == <<"^">> \o ReEscape(string) \o <<"$">>

\* The desktop the navigator works on.  Elements: the taskbar window and the
\* pane of its tray, the hidden-icons button, the icon on the taskbar, the
\* overflow window and the icon in it, the start menu window; the menu
\* windows, as deep as menus nest, each with one item for every label and one
\* more item whose name is close to a label.
TaskbarEl == <<"taskbar", 0, 0>>
TrayPaneEl == <<"tray pane", 0, 0>>
HiddenButtonEl == <<"hidden-icons button", 0, 0>>
TaskbarIconEl == <<"icon on the taskbar", 0, 0>>
OverflowEl == <<"overflow window", 0, 0>>
OverflowIconEl == <<"icon in the overflow", 0, 0>>
StartEl == <<"start menu", 0, 0>>

Str_Talon == <<"T","a","l","o","n">>
Str_Start == <<"S","t","a","r","t">>
Str_Pane == <<"P","a","n","e">>
Str_CoreWindow == <<"W","i","n","d","o","w","s",".","U","I",".","C","o","r","e",".","C","o","r","e","W","i","n","d","o","w">>
Str_Context == <<"C","o","n","t","e","x","t">>
Str_ContextExact == <<"^","C","o","n","t","e","x","t","$">>
Str_Scripting == <<"S","c","r","i","p","t","i","n","g">>
Str_ConsoleREPL == <<"C","o","n","s","o","l","e"," ","(","R","E","P","L",")">>
Str_ViewLog == <<"V","i","e","w"," ","L","o","g">>
Str_CheckForUpdates == <<"C","h","e","c","k"," ","f","o","r"," ","U","p","d","a","t","e","s",".",".",".">>
Str_NearLabel == <<"C","h","e","c","k"," ","f","o","r"," ","U","p","d","a","t","e","s","!","!","!">>

\* the labels the platform actions click (479, 488, 494)
LabelPool == <<Str_Scripting, Str_ConsoleREPL, Str_ViewLog, Str_CheckForUpdates>>

MenuEl(d) == <<"menu", d, 0>>
ItemEl(d, j) == <<"item", d, j>>
NearItemEl(d) == <<"item with a name close to a label", d, 0>>
MenuEls ==
  {MenuEl(d) : d \in 1..MaxMenuLen}
  \cup {ItemEl(d, j) : d \in 1..MaxMenuLen, j \in DOMAIN LabelPool}
  \cup {NearItemEl(d) : d \in 1..MaxMenuLen}

DesktopEls == {TaskbarEl, TrayPaneEl, HiddenButtonEl, TaskbarIconEl,
               OverflowEl, OverflowIconEl, StartEl} \cup MenuEls

DesktopTree(u) ==
  [children |->
     [n \in DesktopEls |->
        IF n = TaskbarEl THEN <<TrayPaneEl>>
        ELSE IF n = TrayPaneEl
             THEN (IF u.has_hidden_button THEN <<HiddenButtonEl>> ELSE <<>>)
                  \o (IF u.icon_on_taskbar THEN <<TaskbarIconEl>> ELSE <<>>)
        ELSE IF n = OverflowEl
             THEN (IF u.icon_in_overflow THEN <<OverflowIconEl>> ELSE <<>>)
        ELSE IF n[1] = "menu"
             THEN [j \in DOMAIN LabelPool |-> ItemEl(n[2], j)] \o <<NearItemEl(n[2])>>
        ELSE <<>>],
   name |->
     [n \in DesktopEls |->
        IF n = TaskbarEl THEN Str_Taskbar
        ELSE IF n = HiddenButtonEl THEN Str_ShowHiddenIcons
        ELSE IF n \in {TaskbarIconEl, OverflowIconEl} THEN Str_Talon
        ELSE IF n = StartEl THEN Str_Start
        ELSE IF n[1] = "menu"
             THEN (IF n[2] <= Len(u.menus) THEN u.menus[n[2]] ELSE <<>>)
        ELSE IF n[1] = "item" THEN LabelPool[n[3]]
        ELSE IF n \in MenuEls THEN Str_NearLabel
        ELSE <<>>],
   class_name |->
     [n \in DesktopEls |->
        IF n = TaskbarEl THEN Str_Shell_TrayWnd
        ELSE IF n \in {HiddenButtonEl, TaskbarIconEl, OverflowIconEl}
             THEN Str_NormalButton
        ELSE IF n = OverflowEl THEN Str_Overflow
        ELSE IF n = StartEl THEN Str_CoreWindow
        ELSE Str_Pane],
   stale |-> {}]

\* ui.windows() on that desktop: the start menu while it is open, the taskbar
\* (an auto-hidden one only while the start menu is open), the overflow
\* window while the panel is open, the menus that are open.
DesktopWindows(u) ==
  (IF u.start_open THEN <<Window(FALSE, FALSE, TRUE, StartEl)>> ELSE <<>>)
  \o (IF u.start_open \/ ~u.autohide
      THEN <<Window(FALSE, FALSE, TRUE, TaskbarEl)>> ELSE <<>>)
  \o (IF u.overflow_open THEN <<Window(FALSE, FALSE, TRUE, OverflowEl)>> ELSE <<>>)
  \o [d \in DOMAIN u.menus |-> Window(FALSE, FALSE, TRUE, MenuEl(d))]

\* key("win"): the start gesture opens the start menu, or closes it
KeyWin(u) == [u EXCEPT !.start_open = ~@]

\* click_element (289-292): a click on the hidden-icons button opens the
\* overflow panel, or closes it; a click on the Talon icon opens its menu,
\* titled Context; a click on an item opens the menu titled after it, or,
\* where menus nest no deeper, closes the menus.
click_element(u, element) ==
  IF element = HiddenButtonEl THEN [u EXCEPT !.overflow_open = ~@]
  ELSE IF element \in {TaskbarIconEl, OverflowIconEl}
       THEN [u EXCEPT !.menus = <<Str_Context>>]
  ELSE IF element[1] = "item"
       THEN [u EXCEPT !.menus = IF element[2] < u.menu_depth
                                THEN Append(SubSeq(u.menus, 1, element[2]),
                                            LabelPool[element[3]])
                                ELSE <<>>]
  ELSE u

EvKey == <<"key", "win">>
EvSleep(d) == <<"sleep", d>>
EvClick(element) == <<"click", element>>
EvSearch(which, o) == <<"search", which, o.found>>

InitNav ==
  /\ SearchAbsent
  /\ OverlayIdle
  /\ screens = MaxScreens
  /\ ThreadsIdle
  /\ nav = [pc |-> "idle", icon_name_regexp |-> <<>>, hidden_items_button |-> None,
            result |-> None, error |-> "none"]
  /\ ui \in [start_open : BOOLEAN, overflow_open : {FALSE}, autohide : BOOLEAN,
             icon_on_taskbar : BOOLEAN, icon_in_overflow : BOOLEAN,
             has_hidden_button : BOOLEAN, menus : {<<>>}, menu_depth : {1}]
  /\ events = <<>>
  /\ act = ActIdle

NavFrame == UNCHANGED <<searchVars, overlayVars, threadVars, act>>

\* automator_get_tray_icon_windows(icon_name_regexp) is called
Nav_Call ==
  /\ nav.pc = "idle"
  /\ \E re \in {Str_TalonExact, Str_talon} :
       nav' = [nav EXCEPT !.pc = "close_start_menu", !.icon_name_regexp = re]
  /\ UNCHANGED <<ui, events>>
  /\ NavFrame

\* 413: automator_close_start_menu (389-404), inside its own overlay scope
\* (392), presses win and sleeps when the start menu's window is there
Nav_CloseStartMenu ==
  /\ nav.pc = "close_start_menu"
  /\ IF \E i \in DOMAIN DesktopWindows(ui) : DesktopWindows(ui)[i].element = StartEl
     THEN /\ ui' = KeyWin(ui)
          /\ events' = events \o <<EvKey, EvSleep("500ms")>>
     ELSE UNCHANGED <<ui, events>>
  /\ nav' = [nav EXCEPT !.pc = "open_start"]
  /\ SetOverlay(AutomationOverlay_exit(
                  AutomationOverlay_enter(TheOverlay, None, screens), None))
  /\ UNCHANGED <<searchVars, screens, scopes, threadVars, act>>

\* 416-417
Nav_OpenStart ==
  /\ nav.pc = "open_start"
  /\ ui' = KeyWin(ui)
  /\ events' = events \o <<EvKey, EvSleep("500ms")>>
  /\ nav' = [nav EXCEPT !.pc = "primary"]
  /\ NavFrame

\* A faulty try block: the result of the primary search is not returned.
AfterPrimary_NoReturn(o) ==
  IF o.pc \in {"returned", "notfound"} THEN "find_hidden" ELSE "raised"

\* 423-426: what follows the primary search
AfterPrimary(o) ==
  IF o.pc = "returned" THEN "returned"
  ELSE IF o.pc = "notfound" THEN "find_hidden"
  ELSE "raised"

\* 422
main_tray_button_specs ==
  WINDOWS_TASKBAR \o <<system_tray_button_spec(nav.icon_name_regexp)>>

\* 438
overflow_tray_button_spec ==
  WINDOWS_TRAY_ICONS_OVERFLOW \o <<system_tray_button_spec(nav.icon_name_regexp)>>

\* 423-426, with o what automator_find_first_element came to
Nav_PrimaryResult(o) ==
  /\ events' = Append(events, EvSearch("primary", o))
  /\ nav' = [nav EXCEPT !.pc = AfterPrimary(o),
                        !.result = IF AfterPrimary(o) = "returned"
                                   THEN o.found ELSE None,
                        !.error = IF AfterPrimary(o) = "raised"
                                  THEN o.error ELSE "none"]

\* 419-426: the search on the taskbar
Nav_PrimarySearch ==
  /\ nav.pc = "primary"
  /\ Nav_PrimaryResult(automator_find_first_element(
                         DesktopTree(ui), DesktopWindows(ui), main_tray_button_specs))
  /\ UNCHANGED ui
  /\ NavFrame

\* 431-433, with o what automator_find_first_element came to; no handler is
\* around the call
Nav_HiddenButtonResult(o) ==
  /\ events' = Append(events, EvSearch("hidden_button", o))
  /\ nav' = [nav EXCEPT !.pc = IF o.pc = "returned" THEN "click_hidden"
                               ELSE "raised",
                        !.hidden_items_button = o.found,
                        !.error = o.error]

\* 431-433: the hidden-icons button is looked for
Nav_FindHiddenButton ==
  /\ nav.pc = "find_hidden"
  /\ Nav_HiddenButtonResult(automator_find_first_element(
                              DesktopTree(ui), DesktopWindows(ui),
                              WINDOWS_HIDDEN_ITEMS_TRAY_BUTTON))
  /\ UNCHANGED ui
  /\ NavFrame

\* 434-435
Nav_ClickHidden ==
  /\ nav.pc = "click_hidden"
  /\ ui' = click_element(ui, nav.hidden_items_button[1])
  /\ events' = events \o <<EvClick(nav.hidden_items_button[1]), EvSleep("100ms")>>
  /\ nav' = [nav EXCEPT !.pc = "overflow"]
  /\ NavFrame

\* 439-441, with o what automator_find_first_element came to
Nav_OverflowResult(o) ==
  /\ events' = Append(events, EvSearch("overflow", o))
  /\ nav' = [nav EXCEPT !.pc = IF o.pc = "returned" THEN "returned"
                               ELSE IF o.pc = "notfound" THEN "recover"
                               ELSE "raised",
                        !.result = o.found,
                        !.error = IF o.pc = "notfound" THEN "none" ELSE o.error]

\* 438-441: the search in the overflow window
Nav_OverflowSearch ==
  /\ nav.pc = "overflow"
  /\ Nav_OverflowResult(automator_find_first_element(
                          DesktopTree(ui), DesktopWindows(ui),
                          overflow_tray_button_spec))
  /\ UNCHANGED ui
  /\ NavFrame

\* A faulty handler: the click that closes the overflow panel is left out.
Recovery_NoClick(u, hidden_items_button) ==
  [ui |-> KeyWin(KeyWin(u)),
   events |-> <<EvKey, EvSleep("200ms"), EvSleep("200ms"), EvKey>>]

\* 443-447, the body of the except clause before its raise: what it does to
\* the desktop and what it issues
Recovery(u, hidden_items_button) ==
  [ui |-> KeyWin(click_element(KeyWin(u), hidden_items_button)),
   events |-> <<EvKey, EvSleep("200ms"),
                EvClick(hidden_items_button), EvSleep("200ms"),
                EvKey>>]

\* 441-448: the overflow panel is closed and the error raised again
Nav_Recover ==
  /\ nav.pc = "recover"
  /\ LET r == Recovery(ui, nav.hidden_items_button[1])
     IN /\ ui' = r.ui
        /\ events' = events \o r.events
  /\ nav' = [nav EXCEPT !.pc = "raised", !.error = "ElementNotFoundError"]
  /\ NavFrame

NextNav ==
  \/ Nav_Call
  \/ Nav_CloseStartMenu
  \/ Nav_OpenStart
  \/ Nav_PrimarySearch
  \/ Nav_FindHiddenButton
  \/ Nav_ClickHidden
  \/ Nav_OverflowSearch
  \/ Nav_Recover

SpecNav == InitNav /\ [][NextNav]_vars

\* ----------------------------- the platform actions, 474-515 and 451-471
\* The actions of WindowsActions, each inside `with AutomationOverlay():`.
PlatformActions ==
  {"automator_click_tray_icon", "automator_open_talon_repl",
   "automator_open_talon_log", "automator_check_for_talon_updates",
   "automator_open_tray_overflow"}

\* the arguments of click_talon_menu_item_windows when it is called by itself
MenuSequences == DistinctSeqs(Range(LabelPool), MaxMenuLen) \ {<<>>}

Call(name, exact_menu_sequence, icon_name_regexp) ==
  [name |-> name, exact_menu_sequence |-> exact_menu_sequence,
   icon_name_regexp |-> icon_name_regexp]

\* what is called, with the label sequence it clicks through (479, 488, 494)
\* and the regular expression it finds the tray icon with (454, 511)
Calls ==
  {Call("automator_click_tray_icon", <<>>, re) : re \in {Str_TalonExact, Str_talon}}
  \cup {Call("automator_open_talon_repl", <<Str_Scripting, Str_ConsoleREPL>>, Str_TalonExact),
        Call("automator_open_talon_log", <<Str_Scripting, Str_ViewLog>>, Str_TalonExact),
        Call("automator_check_for_talon_updates", <<Str_CheckForUpdates>>, Str_TalonExact),
        Call("automator_open_tray_overflow", <<>>, <<>>)}
  \cup {Call("click_talon_menu_item_windows", seq, Str_TalonExact) :
          seq \in MenuSequences}

InitActions ==
  /\ SearchAbsent
  /\ OverlayIdle
  /\ screens = MaxScreens
  /\ ThreadsIdle
  /\ nav = [pc |-> "idle", icon_name_regexp |-> <<>>, hidden_items_button |-> None,
            result |-> None, error |-> "none"]
  /\ ui \in [start_open : BOOLEAN, overflow_open : {FALSE}, autohide : BOOLEAN,
             icon_on_taskbar : BOOLEAN, icon_in_overflow : BOOLEAN,
             has_hidden_button : BOOLEAN, menus : {<<>>},
             menu_depth : 1..MaxMenuLen]
  /\ events = <<>>
  /\ act = ActIdle

\* the with statement of the action, where it has one (477, 486, 493, 497, 512)
InOverlay == act.name \in PlatformActions

\* One of the calls is made.  A platform action enters its overlay scope;
\* all but automator_open_tray_overflow begin with the lookup of the tray
\* icon (454, 513-514).
Act_Call ==
  /\ act.pc = "idle"
  /\ \E c \in Calls :
       /\ act' = [act EXCEPT !.name = c.name,
                             !.exact_menu_sequence = c.exact_menu_sequence,
                             !.pc = IF c.name = "automator_open_tray_overflow"
                                    THEN "tray_key" ELSE "lookup"]
       /\ nav' = IF c.name = "automator_open_tray_overflow" THEN nav
                 ELSE [nav EXCEPT !.pc = "close_start_menu",
                                  !.icon_name_regexp = c.icon_name_regexp]
       /\ IF c.name \in PlatformActions
          THEN SetOverlay(AutomationOverlay_enter(TheOverlay, None, screens))
          ELSE UNCHANGED <<overlay_text_queue, canvases, canvas_context_count>>
  /\ UNCHANGED <<searchVars, screens, scopes, threadVars, ui, events>>

\* 458-461
menu_path ==
  <<SpecOf(Some(Str_ContextExact), None, FALSE, FALSE),
    SpecOf(Some(exact_match_re(act.exact_menu_sequence[1])), None, FALSE, FALSE)>>

\* 467-470, the sequence being indexed from 1 here
subitem_path ==
  <<SpecOf(Some(exact_match_re(act.exact_menu_sequence[act.i - 1])), None, FALSE, FALSE),
    SpecOf(Some(exact_match_re(act.exact_menu_sequence[act.i])), None, FALSE, FALSE)>>

\* the search specs of the call of automator_find_first_element that is next
\* (424, 431, 440, 462, 471, 505), if one is
PendingSearch ==
  IF pc # "idle" THEN None
  ELSE IF act.pc = "lookup" /\ nav.pc = "primary" THEN Some(main_tray_button_specs)
  ELSE IF act.pc = "lookup" /\ nav.pc = "find_hidden"
       THEN Some(WINDOWS_HIDDEN_ITEMS_TRAY_BUTTON)
  ELSE IF act.pc = "lookup" /\ nav.pc = "overflow" THEN Some(overflow_tray_button_spec)
  ELSE IF act.pc = "find_item"
       THEN Some(IF act.i = 1 THEN menu_path ELSE subitem_path)
  ELSE IF act.pc = "tray_find" THEN Some(WINDOWS_HIDDEN_ITEMS_TRAY_BUTTON)
  ELSE None

\* automator_find_first_element(*search_specs) is called (275-279):
\* automator_find_elements (225-245), inside its own overlay scope, lists the
\* windows of the desktop and makes the generator; find-first is its consumer.
Act_FindFirst ==
  /\ PendingSearch # None
  /\ pc' = "created"
  /\ consumer' = "first"
  /\ tree' = DesktopTree(ui)
  /\ windows' = DesktopWindows(ui)
  /\ search_specs' = PendingSearch[1]
  /\ gen_roots' = DesktopRoots(DesktopTree(ui), DesktopWindows(ui))
  /\ SetOverlay(AutomationOverlay_exit(
                  AutomationOverlay_enter(TheOverlay, Some(FINDING_ELEMENT_TEXT), screens),
                  Some(FINDING_ELEMENT_TEXT)))
  /\ UNCHANGED <<root_elements, queue, yielded, popped, found, error,
                 screens, scopes, threadVars, navVars>>

\* find-first has returned and the generator it left is closed, or it has
\* raised
SearchOver == pc \in {"closed", "notfound", "raised"}

\* what automator_find_first_element came to
SearchOutcome ==
  [pc |-> IF pc = "closed" THEN "returned" ELSE pc, found |-> found, error |-> error]

\* the locals of the search are gone
ForgetSearch ==
  /\ pc' = "idle"
  /\ consumer' = "none"
  /\ gen_roots' = <<>>
  /\ queue' = <<>>
  /\ yielded' = <<>>
  /\ popped' = <<>>
  /\ found' = None
  /\ error' = "none"
  /\ UNCHANGED <<tree, root_elements, search_specs, windows>>

\* 423-426
Act_PrimaryDone ==
  /\ act.pc = "lookup" /\ nav.pc = "primary"
  /\ SearchOver
  /\ Nav_PrimaryResult(SearchOutcome)
  /\ ForgetSearch
  /\ UNCHANGED <<ui, act, overlayVars, threadVars>>

\* 431-433
Act_HiddenButtonDone ==
  /\ act.pc = "lookup" /\ nav.pc = "find_hidden"
  /\ SearchOver
  /\ Nav_HiddenButtonResult(SearchOutcome)
  /\ ForgetSearch
  /\ UNCHANGED <<ui, act, overlayVars, threadVars>>

\* 439-441
Act_OverflowDone ==
  /\ act.pc = "lookup" /\ nav.pc = "overflow"
  /\ SearchOver
  /\ Nav_OverflowResult(SearchOutcome)
  /\ ForgetSearch
  /\ UNCHANGED <<ui, act, overlayVars, threadVars>>

\* 454-455 and 513-515: the icon the lookup returned is clicked;
\* click_talon_menu_item_windows then sleeps
Act_LookupReturned ==
  /\ act.pc = "lookup" /\ nav.pc = "returned"
  /\ LET menu == act.exact_menu_sequence # <<>>
     IN /\ ui' = click_element(ui, nav.result[1])
        /\ events' = events \o <<EvClick(nav.result[1])>>
                            \o (IF menu THEN <<EvSleep("100ms")>> ELSE <<>>)
        /\ act' = [act EXCEPT !.pc = IF menu THEN "find_item" ELSE "exit",
                              !.i = IF menu THEN 1 ELSE 0]
  /\ UNCHANGED <<nav, searchVars, overlayVars, threadVars>>

\* 462 and 471: what the search of a menu item came to
Act_ItemDone ==
  /\ act.pc = "find_item"
  /\ SearchOver
  /\ LET o == SearchOutcome
     IN /\ events' = Append(events, EvSearch("item", o))
        /\ act' = IF o.pc = "returned"
                  THEN [act EXCEPT !.pc = "click_item", !.element = o.found]
                  ELSE [act EXCEPT !.pc = "raising", !.error = o.error]
  /\ ForgetSearch
  /\ UNCHANGED <<nav, ui, overlayVars, threadVars>>

\* 462-465 and 471: the item found is clicked; after the first item of a
\* longer sequence comes a sleep (463-464); then the next item is looked for
\* or the function returns
Act_ClickItem ==
  /\ act.pc = "click_item"
  /\ LET n == Len(act.exact_menu_sequence)
     IN /\ ui' = click_element(ui, act.element[1])
        /\ events' = events \o <<EvClick(act.element[1])>>
                            \o (IF act.i = 1 /\ n > 1 THEN <<EvSleep("50ms")>> ELSE <<>>)
        /\ act' = [act EXCEPT !.element = None,
                              !.i = IF act.i < n THEN act.i + 1 ELSE act.i,
                              !.pc = IF act.i < n THEN "find_item"
                                     ELSE IF act.name = "automator_open_talon_repl"
                                          THEN "after_menu"
                                     ELSE "exit"]
  /\ UNCHANGED <<nav, searchVars, overlayVars, threadVars>>

\* 482-483
Act_AfterMenu ==
  /\ act.pc = "after_menu"
  /\ ui' = KeyWin(ui)
  /\ events' = events \o <<EvSleep("2000ms"), EvKey>>
  /\ act' = [act EXCEPT !.pc = "exit"]
  /\ UNCHANGED <<nav, searchVars, overlayVars, threadVars>>

\* 501-502
Act_TrayKey ==
  /\ act.pc = "tray_key"
  /\ ui' = KeyWin(ui)
  /\ events' = events \o <<EvKey, EvSleep("300ms")>>
  /\ act' = [act EXCEPT !.pc = "tray_find"]
  /\ UNCHANGED <<nav, searchVars, overlayVars, threadVars>>

\* 505-507
Act_TrayFindDone ==
  /\ act.pc = "tray_find"
  /\ SearchOver
  /\ LET o == SearchOutcome
     IN /\ events' = Append(events, EvSearch("hidden_button", o))
        /\ act' = IF o.pc = "returned"
                  THEN [act EXCEPT !.pc = "tray_click", !.element = o.found]
                  ELSE [act EXCEPT !.pc = "raising", !.error = o.error]
  /\ ForgetSearch
  /\ UNCHANGED <<nav, ui, overlayVars, threadVars>>

\* 508-509
Act_TrayClick ==
  /\ act.pc = "tray_click"
  /\ ui' = click_element(ui, act.element[1])
  /\ events' = events \o <<EvClick(act.element[1]), EvSleep("100ms")>>
  /\ act' = [act EXCEPT !.pc = "exit", !.element = None]
  /\ UNCHANGED <<nav, searchVars, overlayVars, threadVars>>

\* the with statement of the action is left, where it has one
LeaveOverlay ==
  /\ IF InOverlay
     THEN SetOverlay(AutomationOverlay_exit(TheOverlay, None))
     ELSE UNCHANGED <<overlay_text_queue, canvases, canvas_context_count>>
  /\ UNCHANGED <<screens, scopes>>

\* An exception of the lookup or of a later search leaves the action: it
\* passes the with statement (__exit__ returns False) and reaches the caller.
Act_Raise ==
  /\ \/ act.pc = "lookup" /\ nav.pc = "raised"
     \/ act.pc = "raising"
  /\ act' = [act EXCEPT !.pc = "failed",
                        !.error = IF act.pc = "lookup" THEN nav.error ELSE @]
  /\ LeaveOverlay
  /\ UNCHANGED <<nav, ui, events, searchVars, threadVars>>

\* the action returns
Act_Return ==
  /\ act.pc = "exit"
  /\ act' = [act EXCEPT !.pc = "done"]
  /\ LeaveOverlay
  /\ UNCHANGED <<nav, ui, events, searchVars, threadVars>>

NextActions ==
  \/ Act_Call
  \/ Nav_CloseStartMenu
  \/ Nav_OpenStart
  \/ Act_FindFirst
  \/ GenStart
  \/ GenStep
  \/ GenExhausted
  \/ FindFirstReturn
  \/ FindFirstRaise
  \/ GeneratorClose
  \/ Act_PrimaryDone
  \/ Act_HiddenButtonDone
  \/ Nav_ClickHidden
  \/ Act_OverflowDone
  \/ Nav_Recover
  \/ Act_LookupReturned
  \/ Act_ItemDone
  \/ Act_ClickItem
  \/ Act_AfterMenu
  \/ Act_TrayKey
  \/ Act_TrayFindDone
  \/ Act_TrayClick
  \/ Act_Raise
  \/ Act_Return

SpecActions == InitActions /\ [][NextActions]_vars

\* ===================================================== the search claims
\* x comes before y in the sequence s
Before(s, x, y) == \E i, j \in DOMAIN s : i < j /\ s[i] = x /\ s[j] = y

\* a precedes b as roots of the running search or as children of one parent
PrecedesSibling(a, b) ==
  \/ Before(gen_roots, a, b)
  \/ tree.parent[a] = tree.parent[b] /\ tree.parent[a] # 0 /\ a < b

\* The stage predicate as the specification defines it: the name pattern is
\* matched respecting case_sensitive, the class pattern case-sensitively.
Satisfies(T, spec, n) ==
  /\ spec.name = None \/ ReSearch(spec.name[1], T.name[n], ~spec.case_sensitive)
  /\ spec.class_name = None \/ ReSearch(spec.class_name[1], T.class_name[n], FALSE)

\* The reference set R of one node n and suffix s, by recursion on the tree.
RECURSIVE RefNode(_, _, _)
RefNode(T, n, s) ==
  IF Satisfies(T, s[1], n)
  THEN IF Len(s) = 1 THEN {n}
       ELSE UNION {RefNode(T, T.children[n][i], Tail(s)) : i \in DOMAIN T.children[n]}
  ELSE IF s[1].search_indirect
       THEN UNION {RefNode(T, T.children[n][i], s) : i \in DOMAIN T.children[n]}
  ELSE {}

RefSet(T, roots, path) == UNION {RefNode(T, roots[i], path) : i \in DOMAIN roots}

Ended == pc \in {"stopped", "raised"}

\* C1: with the one-stage path [Spec()], a fully consumed search from
\* explicitly given roots yields the roots, each once, in the order given.
C1_RootsInOrder ==
  (consumer = "list" /\ Ended /\ search_specs = <<AnySpec>>)
    => yielded = root_elements

\* C2: siblings are visited left to right: of two children of one parent, the
\* earlier one is popped first, and everything yielded in its subtree is
\* yielded before anything yielded in the later one's subtree.
C2_LeftToRight ==
  (consumer = "list" /\ Ended) =>
    \A c1, c2 \in Nodes :
      (tree.parent[c1] = tree.parent[c2] /\ tree.parent[c1] # 0 /\ c1 < c2) =>
        /\ ~Before(popped, c2, c1)
        /\ \A y1, y2 \in Nodes :
             (IsAncestorOrSelf(tree, c1, y1) /\ IsAncestorOrSelf(tree, c2, y2))
               => ~Before(yielded, y2, y1)

\* C3: for a non-empty path, the set of nodes a fully consumed search yields is
\* the reference set R(roots, path).
C3_YieldsReferenceSet ==
  (consumer = "list" /\ Ended /\ search_specs # <<>>)
    => Range(yielded) = RefSet(tree, gen_roots, search_specs)

\* The same statement for the paths whose named stages are all
\* case-insensitive (the ones on which line 207 does not raise).
NoCaseSensitiveName(path) ==
  \A i \in DOMAIN path : path[i].name = None \/ ~path[i].case_sensitive

YieldsReferenceSetIgnoringCase ==
  (consumer = "list" /\ Ended /\ search_specs # <<>>
     /\ NoCaseSensitiveName(search_specs))
    => Range(yielded) = RefSet(tree, gen_roots, search_specs)

\* C4: find-first returns the first node the lazy search yields, and raises
\* ElementNotFoundError exactly when the search ends without a yield.
FindFirstDone == pc \in {"returned", "closed", "notfound", "raised"}

C4_FindFirst ==
  LET all == SearchAll(tree, gen_roots, search_specs)
      exhaustedEmpty == all.yielded = <<>> /\ ~all.raised
  IN consumer = "first" =>
       /\ pc \in {"returned", "closed"} =>
            /\ all.yielded # <<>>
            /\ found = Some(all.yielded[1])
            /\ error = "none"
       /\ error = "ElementNotFoundError" <=> pc = "notfound"
       /\ pc = "notfound" => exhaustedEmpty /\ found = None
       /\ (FindFirstDone /\ exhaustedEmpty) => pc = "notfound"

\* find-first has returned a match found below the roots, with frames still
\* waiting on the queue
C4_Witness ==
  /\ consumer = "first"
  /\ pc = "returned"
  /\ found # None
  /\ Len(popped) >= 2
  /\ queue # <<>>

\* C5: when find-first returns a match, no node of a subtree that comes after
\* the match (a later root, or a later child of a common parent) was popped.
InLaterSubtree(m, x) ==
  \E a, b \in Nodes :
    /\ PrecedesSibling(a, b)
    /\ IsAncestorOrSelf(tree, a, m)
    /\ IsAncestorOrSelf(tree, b, x)

C5_FindFirstLazy ==
  (consumer = "first" /\ pc = "returned") =>
    \A i \in DOMAIN popped : ~InLaterSubtree(found[1], popped[i])

\* the windows the whole-desktop search is to look into
Searchable(w) == ~w.hidden /\ ~w.minimized /\ w.accessible

\* the claim's browser test: the name contains a browser identifier,
\* whatever the case of its letters
IsBrowserName(name) == \E b \in Browsers : Contains(Lower(name), b)

\* the window elements in the order the search pops them
ProcessedRoots ==
  SelectSeq(popped, LAMBDA n : \E i \in DOMAIN windows : windows[i].element = n)

Count(s, x) == Cardinality({i \in DOMAIN s : s[i] = x})

\* C6: the whole-desktop search processes every visible, non-minimized,
\* accessible window exactly once, and every window with a browser name
\* after all the others.
C6_BrowsersLast ==
  (consumer = "list" /\ pc = "stopped" /\ windows # <<>>) =>
    /\ \A i \in DOMAIN windows :
         Count(ProcessedRoots, windows[i].element)
           = (IF Searchable(windows[i]) THEN 1 ELSE 0)
    /\ \A i, j \in DOMAIN ProcessedRoots :
         (i < j) => ~(/\ IsBrowserName(tree.name[ProcessedRoots[i]])
                      /\ ~IsBrowserName(tree.name[ProcessedRoots[j]]))

\* C18: an OSError raised while a search reads a window's element or a
\* queued element's name, class or children does not reach the consumer: the
\* window or element is passed over and the search goes on.
C18_IOFailureIsSkipped == error # "OSError"

NoRepeats(s) == \A i, j \in DOMAIN s : s[i] = s[j] => i = j

\* C20: on a tree that does not change, from distinct roots none of which is
\* below another, with any path (the empty one included), the search takes
\* each element off the queue at most once and yields each at most once, so
\* that its loop ends after at most as many iterations as there are elements;
\* consumed to its end it leaves the queue empty, and it has yielded nothing
\* when the path is empty.
C20_EachNodeOnce ==
  /\ NoRepeats(popped)
  /\ NoRepeats(yielded)
  /\ Len(popped) <= MaxNodes
  /\ Range(yielded) \subseteq Range(popped)
  /\ pc = "stopped" => queue = <<>>
  /\ search_specs = <<>> => yielded = <<>>

\* a search from two roots has been consumed to its end, having taken a
\* child off the queue as well and yielded more than once
C20_Witness ==
  /\ consumer = "list"
  /\ pc = "stopped"
  /\ Len(gen_roots) = 2
  /\ Len(popped) > 2
  /\ Len(yielded) > 1

\* ==================================================== the overlay claims
SurfacesExist == canvases # <<>>

\* C16: a consumer that has stopped pulling from the search, after one
\* result or more, has left nothing behind: the counter, the status-text
\* stack and the surfaces are as they were before the search was started.
C16_StoppingLeavesNothing ==
  (windows = <<>> /\ pc \in {"abandoned", "closed"}) =>
    /\ canvas_context_count = 0
    /\ overlay_text_queue = <<>>
    /\ ~SurfacesExist

\* C7: with a display connected and scopes entered and left one at a time in
\* any order, surfaces exist iff canvas_context_count > 0 iff a scope is open;
\* they are created only when the counter goes from 0 to 1 and destroyed only
\* by the exit that leaves no scope open.
C7_SurfacesIffCounted ==
  /\ [](screens >= 1 =>
          /\ SurfacesExist <=> canvas_context_count > 0
          /\ canvas_context_count > 0 <=> OpenScopes # {})
  /\ [][/\ (~SurfacesExist /\ SurfacesExist')
             => (canvas_context_count = 0 /\ canvas_context_count' = 1)
        /\ (SurfacesExist /\ ~SurfacesExist')
             => (OpenScopes # {} /\ OpenScopes' = {})]_vars

\* a scope entered earlier has been left while one entered later is open,
\* and the surfaces are still there
C7_Witness ==
  /\ screens >= 1
  /\ SurfacesExist
  /\ \E i, j \in DOMAIN scopes : i < j /\ ~scopes[i].open /\ scopes[j].open

\* C8: whenever surfaces exist, each shows the top of the status-text stack,
\* or the default text when the stack is empty.
C8_ShowsTopOfStack ==
  \A i \in DOMAIN canvases : canvases[i].text = draw(overlay_text_queue)

\* C14: the entries on the status-text stack are, as a multiset, the texts
\* of the open scopes that were given a text: a scope that is left takes its
\* own entry off, never that of a scope still open.
C14_StackIsOpenTexts ==
  \A t \in {"A", "B"} :
    Count(overlay_text_queue, t)
      = Cardinality({i \in OpenScopes : scopes[i].text_override = Some(t)})

\* C15: once a canvas call has raised inside __enter__ or __exit__, the
\* counter is the number of open scopes, the status-text stack holds the texts
\* of the open scopes, and surfaces exist iff the counter is above 0; a failed
\* enter leaves no text, no count and no surface behind.
C15_FaultsKeepOverlayConsistent ==
  error = "canvas" =>
    /\ canvas_context_count = Cardinality(OpenScopes)
    /\ \A t \in {"A", "B"} :
         Count(overlay_text_queue, t)
           = Cardinality({i \in OpenScopes : scopes[i].text_override = Some(t)})
    /\ SurfacesExist <=> canvas_context_count > 0

\* no thread is inside __enter__ or __exit__
Quiescent == \A t \in DOMAIN threads : threads[t].pc \in {"idle", "open", "closed"}

OpenThreads == {t \in DOMAIN threads : threads[t].pc = "open"}

\* C9: with the steps of concurrent enters and exits interleaved, whenever
\* none is in progress the counter is the number of open scopes; no display
\* gets two surfaces; surfaces are there while a scope is open; the counter
\* is never negative.
C9_ConcurrentScopes ==
  /\ Quiescent => canvas_context_count = Cardinality(OpenThreads)
  /\ \A i, j \in DOMAIN canvases : canvases[i].screen = canvases[j].screen => i = j
  /\ (Quiescent /\ OpenThreads # {}) => SurfacesExist
  /\ canvas_context_count >= 0

\* ================================================== the navigator claims
\* what the navigator did, without the key presses and sleeps
SearchesAndClicks == SelectSeq(events, LAMBDA e : e[1] \in {"search", "click"})

PrimaryFound(e) == e[1] = "search" /\ e[2] = "primary" /\ e[3] # None
PrimaryFailed(e) == e[1] = "search" /\ e[2] = "primary" /\ e[3] = None

\* C10: the hidden-icons button is clicked only after the primary search has
\* failed.  A primary search that finds a node ends the lookup with that node,
\* with no click and no overflow search; an icon found in the overflow panel
\* is returned after exactly: primary search fails, button found, one click,
\* overflow search succeeds.
C10_ClickOnlyAfterPrimaryFails ==
  LET sc == SearchesAndClicks
  IN /\ \A i \in DOMAIN sc :
          sc[i][1] = "click" => \E j \in 1..(i - 1) : PrimaryFailed(sc[j])
     /\ \A i \in DOMAIN sc :
          PrimaryFound(sc[i]) =>
            /\ sc = <<sc[i]>>
            /\ nav.pc = "returned" /\ nav.result = sc[i][3]
     /\ (nav.pc = "returned" /\ Len(sc) > 1) =>
          /\ sc = << <<"search", "primary", None>>,
                     <<"search", "hidden_button", nav.hidden_items_button>>,
                     <<"click", nav.hidden_items_button[1]>>,
                     <<"search", "overflow", nav.result>> >>
          /\ nav.hidden_items_button = Some(HiddenButtonEl)
          /\ nav.result = Some(OverflowIconEl)
          /\ ui.overflow_open

\* the icon was found in the overflow panel after a click
C10_Witness ==
  /\ nav.pc = "returned"
  /\ nav.result = Some(OverflowIconEl)
  /\ \E i \in DOMAIN events : events[i] = EvClick(HiddenButtonEl)

\* the events issued after the search named which failed, if it did
EventsAfterFailed(which) ==
  LET e == <<"search", which, None>>
  IN IF \E i \in DOMAIN events : events[i] = e
     THEN LET i == CHOOSE i \in DOMAIN events : events[i] = e
          IN Some(SubSeq(events, i + 1, Len(events)))
     ELSE None

\* C11: when the primary search and the overflow search have both failed,
\* the lookup reports ElementNotFoundError only after the whole recovery
\* sequence: start gesture, click on the hidden-icons button, start gesture,
\* in that order; while the sequence has not run, nothing is reported.
C11_RecoveryBeforeFailure ==
  EventsAfterFailed("overflow") # None =>
    /\ EventsAfterFailed("primary") # None
    /\ nav.pc \in {"recover", "raised"}
    /\ nav.pc = "recover" => EventsAfterFailed("overflow") = Some(<<>>)
    /\ nav.pc = "raised" =>
         /\ nav.error = "ElementNotFoundError"
         /\ EventsAfterFailed("overflow")
              = Some(<<EvKey, EvSleep("200ms"), EvClick(HiddenButtonEl),
                       EvSleep("200ms"), EvKey>>)

\* both searches have failed and the failure has been reported
C11_Witness ==
  /\ nav.pc = "raised"
  /\ EventsAfterFailed("primary") # None
  /\ EventsAfterFailed("overflow") # None

\* C12: a lookup that ends by reporting a failure leaves the start menu and
\* the overflow panel closed.
C12_FailureLeavesUiClosed ==
  nav.pc = "raised" => (~ui.start_open /\ ~ui.overflow_open)

\* ============================================ the platform action claims
Clicks == SelectSeq(events, LAMBDA e : e[1] = "click")

\* the item labelled label in the menu at depth d
ItemLabelled(d, label) ==
  ItemEl(d, CHOOSE j \in DOMAIN LabelPool : LabelPool[j] = label)

\* C13: with the Talon icon on the taskbar, click_talon_menu_item_windows
\* clicks the tray icon, then the item named exactly L1 in the menu titled
\* Context, then for i = 2..n the item named exactly Li in the menu titled
\* L(i-1); what it has clicked so far is always the beginning of that
\* sequence, and when it returns it has made exactly these n + 1 clicks.
C13_MenuClicks ==
  (act.exact_menu_sequence # <<>> /\ EventsAfterFailed("primary") = None) =>
    LET L == act.exact_menu_sequence
        expected == <<EvClick(TaskbarIconEl)>>
                    \o [i \in DOMAIN L |-> EvClick(ItemLabelled(i, L[i]))]
    IN /\ Len(Clicks) <= Len(expected)
       /\ Clicks = SubSeq(expected, 1, Len(Clicks))
       /\ act.pc \in {"after_menu", "exit", "done"} => Clicks = expected

\* a sequence of more than one label, one of them with characters that are
\* special in a regular expression, has been clicked through
C13_Witness ==
  /\ act.name = "click_talon_menu_item_windows"
  /\ act.pc = "done"
  /\ Len(act.exact_menu_sequence) > 1
  /\ \E i \in DOMAIN act.exact_menu_sequence :
       act.exact_menu_sequence[i] = Str_CheckForUpdates
  /\ Len(Clicks) = Len(act.exact_menu_sequence) + 1

\* C17: in the navigator every click is followed by a settle delay before
\* the next search of the tree begins.
C17_SettleAfterClick ==
  \A i \in DOMAIN events :
    (events[i][1] = "click" /\ \E j \in (i + 1)..Len(events) : events[j][1] = "search")
      => events[i + 1][1] = "sleep"

\* C19: a platform action started with no overlay scope open creates the
\* surfaces when it starts, and only then; while it runs (the scope of
\* automator_close_start_menu, the scopes of the searches, generators being
\* closed, the recovery) the surfaces stay; they are destroyed by the step
\* with which the action returns or fails, and only by it, and then the
\* counter is 0 and the status-text stack empty.
C19_SurfacesSpanTheAction ==
  /\ [](InOverlay =>
          IF act.pc \in {"done", "failed"}
          THEN ~SurfacesExist /\ canvas_context_count = 0 /\ overlay_text_queue = <<>>
          ELSE SurfacesExist /\ canvas_context_count >= 1)
  /\ [][/\ (~SurfacesExist /\ SurfacesExist' /\ InOverlay') => act.pc = "idle"
        /\ (SurfacesExist /\ ~SurfacesExist' /\ InOverlay)
             => (act.pc \notin {"done", "failed"} /\ act'.pc \in {"done", "failed"})]_vars

\* a platform action has failed after the recovery of the lookup, and one
\* has returned after clicking through a menu
C19_Witness ==
  /\ InOverlay
  /\ ~SurfacesExist
  /\ \/ act.pc = "failed" /\ EventsAfterFailed("overflow") # None
     \/ act.pc = "done" /\ Len(Clicks) = 3

====
